---- MODULE Spec2Model ----
(***************************************************************************)
(* gomamayo-rs: detection of "gomamayo" phrases, where the end of one      *)
(* word's pronunciation overlaps the start of the next word's.             *)
(*                                                                         *)
(* A Rust String is modelled as the sequence of its chars; a char is a     *)
(* one-element atom written in ASCII romaji.  The eight small kana of the  *)
(* literal at lib.rs:114 are written with the usual "x" prefix (xya, xyu,  *)
(* xyo, xa, xi, xu, xe, xo), the prolonged-sound mark is "-", the small    *)
(* tsu is "xtsu", and every other kana is written in capitals ("MA").      *)
(***************************************************************************)
EXTENDS Integers, Sequences, FiniteSets, TLC

VARIABLES pc, reading, moras,
          tokenized, pronounciations, window, degree, ary_degree, result,
          args, lindera, arg_i, stdout, stderr

vars == <<pc, reading, moras,
          tokenized, pronounciations, window, degree, ary_degree, result,
          args, lindera, arg_i, stdout, stderr>>

moraVars == <<reading, moras>>
analyzeVars == <<tokenized, pronounciations, window, degree, ary_degree, result>>
mainVars == <<args, lindera, arg_i, stdout, stderr>>

(* Bounds of the model. *)
MaxLen == 4
MaxTokens == 3
MaxChars == 5
MaxArgs == 3

(* Option<T> and Result<T, E>. *)
None == [some |-> FALSE]
Some(v) == [some |-> TRUE, v |-> v]
Ok(v) == [ok |-> TRUE, v |-> v]
Err(e) == [ok |-> FALSE, e |-> e]

Min(a, b) == IF a <= b THEN a ELSE b
Max(a, b) == IF a >= b THEN a ELSE b

(* A value for the variables a specification does not use. *)
Unused == <<>>

(***************************************************************************)
(* into_moras                                                              *)
(***************************************************************************)

(* The chars of the string literal the loop tests each char against. *)
SmallKana == {"xya", "xyu", "xyo", "xa", "xi", "xu", "xe", "xo"}

RECURSIVE IntoMorasLoop(_, _, _, _)
IntoMorasLoop(pronounciation, i, acc, curr) ==
    IF i > Len(pronounciation)
    THEN IF curr # <<>> THEN Append(acc, curr) ELSE acc
    ELSE LET c == pronounciation[i]
             flush == c \notin SmallKana /\ curr # <<>>
             acc1 == IF flush THEN Append(acc, curr) ELSE acc
             curr1 == IF flush THEN <<>> ELSE curr
         IN  IntoMorasLoop(pronounciation, i + 1, acc1, Append(curr1, c))

(* Mutants of into_moras: the same loop gluing the chars of another set, *)
(* and the loop without the push that follows it.                        *)
RECURSIVE GlueLoop(_, _, _, _, _)
GlueLoop(pronounciation, i, acc, curr, glue) ==
    IF i > Len(pronounciation)
    THEN IF curr # <<>> THEN Append(acc, curr) ELSE acc
    ELSE LET c == pronounciation[i]
             flush == c \notin glue /\ curr # <<>>
             acc1 == IF flush THEN Append(acc, curr) ELSE acc
             curr1 == IF flush THEN <<>> ELSE curr
         IN  GlueLoop(pronounciation, i + 1, acc1, Append(curr1, c), glue)

IntoMorasPerChar(pronounciation) ==
    GlueLoop(pronounciation, 1, <<>>, <<>>, {})

IntoMorasGlueLong(pronounciation) ==
    GlueLoop(pronounciation, 1, <<>>, <<>>, SmallKana \cup {"-"})

IntoMorasNoLastPush(pronounciation) ==
    LET m == IntoMorasLoop(pronounciation, 1, <<>>, <<>>)
    IN  IF m = <<>> THEN m ELSE SubSeq(m, 1, Len(m) - 1)

IntoMoras(pronounciation) ==
    IntoMorasLoop(pronounciation, 1, <<>>, <<>>)

(***************************************************************************)
(* compute_ary_and_degree                                                  *)
(***************************************************************************)

(* left[left.len() - d..] == right[..d], on 1-based sequences. *)
SlicesEqual(left, right, d) ==
    SubSeq(left, Len(left) - d + 1, Len(left)) = SubSeq(right, 1, d)

(* (1..=n).rev().find(..): the candidates from d down to 1, first match. *)
RECURSIVE RevFind(_, _, _)
RevFind(left, right, d) ==
    IF d < 1 THEN None
    ELSE IF SlicesEqual(left, right, d) THEN Some(d)
    ELSE RevFind(left, right, d - 1)

(* Mutant: the search without rev(), from 1 up. *)
RECURSIVE FwdFind(_, _, _)
FwdFind(left, right, d) ==
    IF d > Min(Len(left), Len(right)) THEN None
    ELSE IF SlicesEqual(left, right, d) THEN Some(d)
    ELSE FwdFind(left, right, d + 1)

FindDegreeAscending(left, right) == FwdFind(left, right, 1)

(* Mutant: morae compared by their first char, the base kana, alone. *)
Bases(ms) == [k \in 1..Len(ms) |-> ms[k][1]]

RECURSIVE RevFindBases(_, _, _)
RevFindBases(left, right, d) ==
    IF d < 1 THEN None
    ELSE IF SlicesEqual(Bases(left), Bases(right), d) THEN Some(d)
    ELSE RevFindBases(left, right, d - 1)

FindDegreeBaseKana(left, right) ==
    RevFindBases(left, right, Min(Len(left), Len(right)))

(* The `degree` of one window: Option<usize>. *)
FindDegree(left, right) ==
    RevFind(left, right, Min(Len(left), Len(right)))

(* Mutant: circular_tuple_windows, which also pairs the last with the first. *)
CircularTupleWindows(s) ==
    [k \in 1..Len(s) |-> <<s[k], s[(k % Len(s)) + 1]>>]

(* Itertools::tuple_windows for pairs. *)
TupleWindows(s) ==
    IF Len(s) < 2 THEN <<>>
    ELSE [k \in 1..(Len(s) - 1) |-> <<s[k], s[k + 1]>>]

(* Mutant: max_degree overwritten by each matching window's degree. *)
LoopBodyLastDegree(left, right, ary, max_degree) ==
    LET found == FindDegree(left, right)
    IN  IF found.some
        THEN [degree |-> found, ary |-> ary + 1, max_degree |-> found.v]
        ELSE [degree |-> found, ary |-> ary, max_degree |-> max_degree]

(* One pass through the body of the for loop: the window's degree and the *)
(* two counters after it.  ary and max_degree are i32; they stay below    *)
(* the number of readings and the length of a reading, far from 2^31.     *)
LoopBody(left, right, ary, max_degree) ==
    LET found == FindDegree(left, right)
    IN  IF found.some
        THEN [degree |-> found, ary |-> ary + 1,
              max_degree |-> Max(max_degree, found.v)]
        ELSE [degree |-> found, ary |-> ary, max_degree |-> max_degree]

(* The windows the for loop runs over. *)
Windows(prons) ==
    TupleWindows([k \in 1..Len(prons) |-> IntoMoras(prons[k])])

(* The for loop from window number k on, and the returned pair. *)
RECURSIVE WindowsLoop(_, _, _, _)
WindowsLoop(windows, k, ary, max_degree) ==
    IF k > Len(windows) THEN <<ary, max_degree>>
    ELSE LET b == LoopBody(windows[k][1], windows[k][2], ary, max_degree)
         IN  WindowsLoop(windows, k + 1, b.ary, b.max_degree)

ComputeAryAndDegree(prons) == WindowsLoop(Windows(prons), 1, 0, 0)

(***************************************************************************)
(* tokenize_to_pronounciations and analyze                                 *)
(***************************************************************************)

LINDERA_DETAIL_READING_COLUMN == 6
LINDERA_DETAIL_PRONOUNCIATION_COLUMN == 9

(* The string "*". *)
Star == <<"*">>

(* slice::get with a 0-based index. *)
Get(d, column) == IF column + 1 <= Len(d) THEN Some(d[column + 1]) ELSE None

(* Mutant: the reading column looked at before the pronunciation column. *)
ResolveReadingFirst(details) ==
    IF ~details.some THEN None
    ELSE LET r == Get(details.v, LINDERA_DETAIL_READING_COLUMN)
             p == Get(details.v, LINDERA_DETAIL_PRONOUNCIATION_COLUMN)
         IN  IF r.some /\ r.v # Star THEN Some(r.v)
             ELSE IF p.some /\ p.v # Star THEN Some(p.v)
             ELSE None

(* The closure given to and_then, applied to get_details(). *)
Resolve(details) ==
    IF ~details.some THEN None
    ELSE LET p == Get(details.v, LINDERA_DETAIL_PRONOUNCIATION_COLUMN)
             r == Get(details.v, LINDERA_DETAIL_READING_COLUMN)
         IN  IF p.some /\ p.v # Star THEN Some(p.v)
             ELSE IF r.some /\ r.v # Star THEN Some(r.v)
             ELSE None

UnknownPronounciationError(text) ==
    [kind |-> "UnknownPronounciationError", text |-> text]

(* map(..).collect::<Result<Vec<_>, _>>(): stops at the first Err. *)
RECURSIVE Collect(_, _, _)
Collect(tokens, k, acc) ==
    IF k > Len(tokens) THEN Ok(acc)
    ELSE LET p == Resolve(tokens[k].details)
         IN  IF p.some THEN Collect(tokens, k + 1, Append(acc, p.v))
             ELSE Err(UnknownPronounciationError(tokens[k].text))

(* `tok` is what lines 56-76 produced: Err of an IoError or a LinderaError, *)
(* or Ok of the tokens.                                                     *)
TokenizeToPronounciations(tok) ==
    IF ~tok.ok THEN Err(tok.e) ELSE Collect(tok.v, 1, <<>>)

Kind(ad) ==
    IF ad[1] > 0 THEN Some([ary |-> ad[1], degree |-> ad[2]]) ELSE None

Gomamayo(kind, prons) == [kind |-> kind, pronounciations |-> prons]

Analyze(tok) ==
    LET prons == TokenizeToPronounciations(tok)
    IN  IF ~prons.ok THEN Err(prons.e)
        ELSE Ok(Gomamayo(Kind(ComputeAryAndDegree(prons.v)), prons.v))

(***************************************************************************)
(* The inputs of analyze: what the tokenizer hands back                    *)
(***************************************************************************)

(* Any field of a token's details other than the two columns read. *)
Filler == <<"x">>

(* The details of a dictionary word: columns 0 to 9. *)
WordDetails(r, p) ==
    <<Filler, Filler, Filler, Filler, Filler, Filler, r, Filler, Filler, p>>

(* Details that end after the reading column. *)
ShortDetails(r) == <<Filler, Filler, Filler, Filler, Filler, Filler, r>>

(* The details of an unknown word: one column. *)
UnknownDetails == <<Filler>>

Token(text, details) == [text |-> text, details |-> details]

(* A word whose pronunciation and reading columns both hold r. *)
WordToken(r) == Token(r, Some(WordDetails(r, r)))
WordTokens(prons) == [k \in 1..Len(prons) |-> WordToken(prons[k])]

StringsOfLen(chars, k) == [1..k -> chars]
StringsUpTo(chars, n) == UNION {StringsOfLen(chars, k) : k \in 0..n}

RECURSIVE SumTo(_, _)
SumTo(v, i) == IF i = 0 THEN 0 ELSE v[i] + SumTo(v, i - 1)

(* The lengths of m strings that hold at most t chars together. *)
LengthVectors(m, t) == {v \in [1..m -> 0..t] : SumTo(v, m) <= t}

(* The string flat cut into pieces of the lengths v. *)
Cut(flat, v) ==
    [i \in 1..Len(v) |-> SubSeq(flat, SumTo(v, i - 1) + 1, SumTo(v, i))]

(* An ordinary kana, the prolonged-sound mark and a small kana. *)
JunctionChars == {"MA", "-", "xyu"}

(* Two readings that differ, for the two columns. *)
PronP == <<"MA", "YO">>
ReadQ == <<"GO", "MA">>

DetailVariants ==
    {None, Some(UnknownDetails)}
    \cup {Some(ShortDetails(r)) : r \in {Star, ReadQ}}
    \cup {Some(WordDetails(r, p)) : r \in {Star, ReadQ}, p \in {Star, PronP}}

VariantTokens ==
    {Token(text, d) : text \in {<<"A">>, <<"B">>}, d \in DetailVariants}

(* expected_pronounciations, expected_ary and expected_degree of TEST_CASES. *)
TestCase(prons, ary, deg) ==
    [expected_pronounciations |-> prons, expected_ary |-> ary,
     expected_degree |-> deg]

TEST_CASES == <<
    TestCase(<< <<"GO", "MA">>, <<"MA", "YO">> >>, 1, 1),
    TestCase(<< <<"CHI", "xyo", "-", "KI">>, <<"KI", "N", "RI">> >>, 1, 1),
    TestCase(<< <<"HA", "KU", "RE", "-">>, <<"RE", "-", "MU">> >>, 1, 2),
    TestCase(<< <<"SHI", "xyo", "-", "KA">>, <<"KA", "TSU", "DO", "-">> >>, 1, 1),
    TestCase(<< <<"SHI", "N", "RI", "xyo", "-">>, <<"U", "KE", "TSU", "KE">> >>,
             0, 0),
    TestCase(<< <<"PA", "PA", "I", "YA">> >>, 0, 0),
    TestCase(<< <<"PA", "PA", "I", "YA">>, <<"JI", "xyu", "-", "SU">> >>, 0, 0),
    TestCase(<< <<"BU", "BU", "N">>, <<"BU", "N", "SU", "-">>,
                <<"BU", "N", "KA", "I">> >>, 1, 2),
    TestCase(<< <<"MO", "BA", "I", "RU">>, <<"RU", "-", "TA">>,
                <<"TA", "N", "MA", "TSU">> >>, 2, 1),
    TestCase(<< <<"TA", "I", "KO">>, <<"KO", "-", "BO">>,
                <<"BO", "SHI", "xyu", "-">>,
                <<"SHI", "xyu", "-", "RI", "xyo", "-">> >>, 3, 2),
    TestCase(<< <<"TA", "KO", "-">>, <<"KO", "-", "JI">>, <<"GO", "MA">>,
                <<"MA", "YO">> >>, 2, 2),
    TestCase(<< <<"O", "RE", "N", "JI">>, <<"JI", "xyu", "-", "SU">> >>, 0, 0)
>>

(* The tokens are words read as any list of at most MaxTokens readings    *)
(* over JunctionChars that hold at most MaxChars chars together.         *)
JunctionInput ==
    \E m \in 0..MaxTokens : \E v \in LengthVectors(m, MaxChars) :
        \E flat \in StringsOfLen(JunctionChars, SumTo(v, m)) :
            tokenized = Ok(WordTokens(Cut(flat, v)))

(* The tokens are any list of at most MaxTokens of the VariantTokens. *)
VariantInput ==
    \E n \in 0..MaxTokens : \E ts \in [1..n -> VariantTokens] :
        tokenized = Ok(ts)

(* The tokens are the words of one of the TEST_CASES. *)
TestCaseInput ==
    \E c \in 1..Len(TEST_CASES) :
        tokenized = Ok(WordTokens(TEST_CASES[c].expected_pronounciations))

(* The temporary file, the tokenizer's construction or tokenize failed. *)
FailedInput ==
    tokenized \in {Err([kind |-> "IoError"]), Err([kind |-> "LinderaError"])}

(***************************************************************************)
(* Spec: one call of analyze                                               *)
(***************************************************************************)

MorasUnused == reading = Unused /\ moras = Unused
AnalyzeUnused ==
    /\ tokenized = Unused
    /\ pronounciations = Unused
    /\ window = 0
    /\ degree = Unused
    /\ ary_degree = Unused
    /\ result = Unused
MainUnused ==
    /\ args = Unused
    /\ lindera = Unused
    /\ arg_i = 0
    /\ stdout = Unused
    /\ stderr = Unused

Init ==
    /\ pc = "start"
    /\ \/ JunctionInput
       \/ VariantInput
       \/ TestCaseInput
       \/ FailedInput
    /\ pronounciations = Unused
    /\ window = 0
    /\ degree = None
    /\ ary_degree = <<0, 0>>
    /\ result = Unused
    /\ MorasUnused
    /\ MainUnused

(* tokenize_to_pronounciations returns Ok: the loop starts. *)
TokenizeOk ==
    /\ pc = "start"
    /\ TokenizeToPronounciations(tokenized).ok
    /\ pronounciations' = TokenizeToPronounciations(tokenized).v
    /\ pc' = "loop"
    /\ UNCHANGED <<tokenized, window, degree, ary_degree, result, moraVars,
                   mainVars>>

(* tokenize_to_pronounciations returns Err: `?` returns it from analyze. *)
TokenizeErr ==
    /\ pc = "start"
    /\ ~TokenizeToPronounciations(tokenized).ok
    /\ result' = Err(TokenizeToPronounciations(tokenized).e)
    /\ pc' = "done"
    /\ UNCHANGED <<tokenized, pronounciations, window, degree, ary_degree,
                   moraVars, mainVars>>

(* One pass through the for loop of compute_ary_and_degree. *)
LoopIter ==
    /\ pc = "loop"
    /\ window < Len(Windows(pronounciations))
    /\ LET w == Windows(pronounciations)[window + 1]
           b == LoopBody(w[1], w[2], ary_degree[1], ary_degree[2])
       IN  /\ degree' = b.degree
           /\ ary_degree' = <<b.ary, b.max_degree>>
    /\ window' = window + 1
    /\ UNCHANGED <<pc, tokenized, pronounciations, result, moraVars, mainVars>>

(* The loop is over: analyze builds kind and returns. *)
AnalyzeReturn ==
    /\ pc = "loop"
    /\ window = Len(Windows(pronounciations))
    /\ result' = Ok(Gomamayo(Kind(ary_degree), pronounciations))
    /\ pc' = "done"
    /\ UNCHANGED <<tokenized, pronounciations, window, degree, ary_degree,
                   moraVars, mainVars>>

Next == TokenizeOk \/ TokenizeErr \/ LoopIter \/ AnalyzeReturn

Spec == Init /\ [][Next]_vars

(* The step-by-step run and the function agree. *)
StepsAgree == pc = "done" => result = Analyze(tokenized)

(* What the claims say of a junction, stated without the search. *)
Matches(left, right, d) ==
    \A j \in 1..d : left[Len(left) - d + j] = right[j]

Overlap(left, right) ==
    CHOOSE d \in 0..Min(Len(left), Len(right)) :
        /\ d = 0 \/ Matches(left, right, d)
        /\ \A e \in (d + 1)..Min(Len(left), Len(right)) : ~Matches(left, right, e)

Junctions(prons) == IF Len(prons) < 2 THEN {} ELSE 1..(Len(prons) - 1)

OverlapAt(prons, k) == Overlap(IntoMoras(prons[k]), IntoMoras(prons[k + 1]))

MaxOf(S) == CHOOSE m \in S : \A x \in S : x <= m

(* C2: the overlap d found at a junction is at most the shorter length;  *)
(* if d > 0 the last d morae of left are the first d morae of right; no  *)
(* larger d' matches; d = 0 exactly when no d >= 1 matches, as when      *)
(* either sequence is empty.                                             *)
C2_OverlapIsLongestMatch ==
    (pc \in {"loop", "done"} /\ window >= 1) =>
        LET left == IntoMoras(pronounciations[window])
            right == IntoMoras(pronounciations[window + 1])
            m == Min(Len(left), Len(right))
            d == IF degree.some THEN degree.v ELSE 0
        IN  /\ degree.some => degree.v >= 1
            /\ 0 <= d /\ d <= m
            /\ d > 0 => Matches(left, right, d)
            /\ \A e \in (d + 1)..m : ~Matches(left, right, e)
            /\ (d = 0) <=> (\A e \in 1..m : ~Matches(left, right, e))
            /\ (left = <<>> \/ right = <<>>) => d = 0

C2_Witness ==
    /\ pc = "loop"
    /\ window >= 1
    /\ degree = Some(2)
    /\ Len(IntoMoras(pronounciations[window])) = 3
    /\ Len(IntoMoras(pronounciations[window + 1])) = 2

(* C3: ary is the number of consecutive pairs whose overlap is >= 1 and  *)
(* degree the largest of those overlaps (0 when there is none); kind is  *)
(* Some{ary, degree} when ary > 0 and None exactly when ary = 0.         *)
C3_Aggregation ==
    (pc = "done" /\ result.ok) =>
        LET prons == result.v.pronounciations
            J == {k \in Junctions(prons) : OverlapAt(prons, k) >= 1}
            ary == ary_degree[1]
            deg == ary_degree[2]
        IN  /\ window = Cardinality(Junctions(prons))
            /\ ary = Cardinality(J)
            /\ deg = MaxOf({OverlapAt(prons, k) : k \in J} \cup {0})
            /\ ary > 0 => result.v.kind = Some([ary |-> ary, degree |-> deg])
            /\ (result.v.kind = None) <=> (ary = 0)

C3_Witness ==
    /\ pc = "done"
    /\ result.ok
    /\ Len(result.v.pronounciations) = 3
    /\ result.v.kind = Some([ary |-> 2, degree |-> 2])
    /\ degree = Some(1)

(* C5: morae match only as wholes: where left ends with a bare kana and  *)
(* right begins with that kana plus a small kana, d = 1 is no match; the *)
(* readings O-RE-N-JI, JI-xyu-"-"-SU give ary = 0, degree = 0, no kind.  *)
OrangeJuice == << <<"O", "RE", "N", "JI">>, <<"JI", "xyu", "-", "SU">> >>

C5_MoraLevelComparison ==
    /\ (pc \in {"loop", "done"} /\ window >= 1) =>
        LET left == IntoMoras(pronounciations[window])
            right == IntoMoras(pronounciations[window + 1])
        IN  (/\ left # <<>> /\ right # <<>>
             /\ Len(left[Len(left)]) = 1
             /\ Len(right[1]) > 1
             /\ right[1][1] = left[Len(left)][1]
             /\ right[1][2] \in SmallKana)
            => degree # Some(1)
    /\ (pc = "done" /\ result.ok /\ result.v.pronounciations = OrangeJuice) =>
        /\ ary_degree = <<0, 0>>
        /\ result.v.kind = None

C5_Witness ==
    /\ pc = "done"
    /\ result.ok
    /\ result.v.pronounciations = OrangeJuice
    /\ result.v.kind = None
    /\ window = 1
    /\ degree = None

(* C6: with exactly one reading, or none, no junction is examined and    *)
(* ary = 0, degree = 0, kind = None.                                     *)
C6_SingleToken ==
    (pc = "done" /\ result.ok /\ Len(result.v.pronounciations) <= 1) =>
        /\ window = 0
        /\ ary_degree = <<0, 0>>
        /\ result.v.kind = None

C6_Witness ==
    /\ pc = "done"
    /\ result.ok
    /\ Len(result.v.pronounciations) = 1
    /\ Len(result.v.pronounciations[1]) >= 2
    /\ result.v.kind = None

(* What C7 says of one token: its pronunciation field when present and   *)
(* not "*", otherwise its reading field when present and not "*".        *)
Usable(details, column) ==
    /\ details.some
    /\ Len(details.v) > column
    /\ details.v[column + 1] # Star

ReadingOf(token) ==
    IF Usable(token.details, LINDERA_DETAIL_PRONOUNCIATION_COLUMN)
    THEN Some(token.details.v[LINDERA_DETAIL_PRONOUNCIATION_COLUMN + 1])
    ELSE IF Usable(token.details, LINDERA_DETAIL_READING_COLUMN)
    THEN Some(token.details.v[LINDERA_DETAIL_READING_COLUMN + 1])
    ELSE None

(* C7: if some token has neither field, analyze returns the              *)
(* UnknownPronounciationError with the text of the first such token and  *)
(* no Gomamayo; otherwise a Gomamayo with one reading per token in order.*)
C7_ReadingResolution ==
    (pc = "done" /\ tokenized.ok) =>
        LET tokens == tokenized.v
            bad == {k \in 1..Len(tokens) : ~ReadingOf(tokens[k]).some}
        IN  IF bad # {}
            THEN LET first == CHOOSE k \in bad : \A j \in bad : k <= j
                 IN  /\ ~result.ok
                     /\ result.e = UnknownPronounciationError(tokens[first].text)
            ELSE /\ result.ok
                 /\ Len(result.v.pronounciations) = Len(tokens)
                 /\ \A k \in 1..Len(tokens) :
                        result.v.pronounciations[k] = ReadingOf(tokens[k]).v

C7_Witness ==
    /\ pc = "done"
    /\ tokenized.ok
    /\ Len(tokenized.v) = 3
    /\ tokenized.v[1].details = Some(WordDetails(ReadQ, Star))
    /\ tokenized.v[2] = Token(<<"B">>, Some(ShortDetails(Star)))
    /\ tokenized.v[3] = Token(<<"A">>, None)
    /\ result = Err(UnknownPronounciationError(<<"B">>))

(***************************************************************************)
(* SpecMoras: one call of into_moras                                       *)
(***************************************************************************)

(* The chars the readings of SpecMoras are made of: two ordinary kana, the *)
(* prolonged-sound mark, the small tsu, and two of the small kana.         *)
MoraChars == {"MA", "JI", "-", "xtsu", "xyu", "xa"}

InitMoras ==
    /\ pc = "start"
    /\ reading \in StringsUpTo(MoraChars, MaxLen)
    /\ moras = Unused
    /\ AnalyzeUnused
    /\ MainUnused

Segment ==
    /\ pc = "start"
    /\ moras' = IntoMoras(reading)
    /\ pc' = "done"
    /\ UNCHANGED <<reading, analyzeVars, mainVars>>

NextMoras == Segment

SpecMoras == InitMoras /\ [][NextMoras]_vars

(* Joining the morae of a sequence in order. *)
RECURSIVE Join(_)
Join(ms) == IF ms = <<>> THEN <<>> ELSE Head(ms) \o Join(Tail(ms))

(* The positions, in the joined string, of the first char of each mora. *)
MoraStarts(ms) ==
    {1 + Len(Join(SubSeq(ms, 1, k))) : k \in 0..(Len(ms) - 1)}

(* C1: joining into_moras(R) in order gives back R, and no mora is empty. *)
C1_Reconstruction ==
    pc = "done" =>
        /\ Join(moras) = reading
        /\ \A k \in 1..Len(moras) : moras[k] # <<>>

C1_Witness ==
    /\ pc = "done"
    /\ Len(reading) = MaxLen
    /\ reading[1] \in SmallKana
    /\ reading[3] \in SmallKana
    /\ Len(moras) = 3

(* C4: no mora boundary is placed immediately before a small kana: each  *)
(* small kana that is not the first char of R is in the mora of the char *)
(* before it, so only the first mora can begin with a small kana.        *)
C4_NoBoundaryBeforeSmallKana ==
    pc = "done" =>
        /\ \A i \in 2..Len(reading) :
              reading[i] \in SmallKana => i \notin MoraStarts(moras)
        /\ \A k \in 2..Len(moras) : moras[k][1] \notin SmallKana

C4_Witness ==
    /\ pc = "done"
    /\ reading = <<"xyu", "JI", "xyu", "xa">>
    /\ moras = <<(<<"xyu">>), <<"JI", "xyu", "xa">> >>

(* C10: every char outside the small kana set starts a new mora, so the  *)
(* number of morae is the number of such chars, plus one when R begins   *)
(* with a small kana.                                                    *)
C10_OtherCharsStartMora ==
    pc = "done" =>
        /\ \A i \in 1..Len(reading) :
              reading[i] \notin SmallKana => i \in MoraStarts(moras)
        /\ Len(moras) =
              Cardinality({i \in 1..Len(reading) : reading[i] \notin SmallKana})
              + (IF reading # <<>> /\ reading[1] \in SmallKana THEN 1 ELSE 0)

C10_Witness ==
    /\ pc = "done"
    /\ reading = <<"JI", "xyu", "-", "xtsu">>
    /\ moras = <<(<<"JI", "xyu">>), <<"-">>, <<"xtsu">> >>

(***************************************************************************)
(* SpecMain: one run of the program                                        *)
(***************************************************************************)

(* str::trim: leading and trailing white space removed. *)
WhiteSpace == {" "}

RECURSIVE TrimStart(_)
TrimStart(str) ==
    IF str # <<>> /\ Head(str) \in WhiteSpace THEN TrimStart(Tail(str)) ELSE str

RECURSIVE TrimEnd(_)
TrimEnd(str) ==
    IF str # <<>> /\ str[Len(str)] \in WhiteSpace
    THEN TrimEnd(SubSeq(str, 1, Len(str) - 1))
    ELSE str

Trim(str) == TrimEnd(TrimStart(str))

(* The lines written by println! and eprintln!, as the sequence of their  *)
(* pieces; the Japanese text of the format strings is written in romaji.  *)
GomamayoLine(input, kind) ==
    input \o <<": ", ToString(kind.ary), "kou", ToString(kind.degree),
               "ji no gomamayo desu.">>

NotGomamayoLine(input) == input \o <<": ", "gomamayo dewa arimasen.">>

LinderaErrorLine(e) ==
    <<"Error: nyuuryoku wo wakachigaki dekimasen deshita: ", e.kind, ".">>

UnknownPronounciationLine(text) ==
    <<"Error: tango no yomikata wo shutoku dekimasen deshita: ">> \o text

OtherErrorLine(e) ==
    <<"Error: fumei na eraa ga hassei shimashita: ", e.kind>>

(* The command line arguments: two phrases, one also given with spaces  *)
(* around it.                                                           *)
ArgSet == {<<"a">>, <<"b">>, <<" ", "a", " ">>}

(* What the tokenizer may hand back for a phrase. *)
MainOutcomes ==
    {Err([kind |-> "IoError"]),
     Err([kind |-> "LinderaError"]),
     Ok(<<WordToken(<<"GO", "MA">>), Token(<<"?">>, Some(UnknownDetails))>>),
     Ok(WordTokens(<< <<"GO", "MA">>, <<"MA", "YO">> >>)),
     Ok(WordTokens(<< <<"PA", "PA", "I", "YA">> >>))}

InitMain ==
    /\ pc = "main"
    /\ args \in UNION {[1..n -> ArgSet] : n \in 0..MaxArgs}
    /\ lindera \in [{Trim(a) : a \in ArgSet} -> MainOutcomes]
    /\ arg_i = 1
    /\ stdout = <<>>
    /\ stderr = <<>>
    /\ MorasUnused
    /\ AnalyzeUnused

(* gomamayo::analyze(input) for argument number i. *)
Analysis(i) == Analyze(lindera[Trim(args[i])])

(* Ok(gomamayo): one line on standard output, then the next argument. *)
MainPrint ==
    /\ pc = "main"
    /\ arg_i <= Len(args)
    /\ Analysis(arg_i).ok
    /\ LET input == Trim(args[arg_i])
           gomamayo == Analysis(arg_i).v
       IN  stdout' = Append(stdout,
               IF gomamayo.kind.some
               THEN GomamayoLine(input, gomamayo.kind.v)
               ELSE NotGomamayoLine(input))
    /\ arg_i' = arg_i + 1
    /\ UNCHANGED <<pc, args, lindera, stderr, moraVars, analyzeVars>>

(* Err(LinderaError(e)): a line on standard error, then return. *)
MainLinderaError ==
    /\ pc = "main"
    /\ arg_i <= Len(args)
    /\ ~Analysis(arg_i).ok
    /\ Analysis(arg_i).e.kind = "LinderaError"
    /\ stderr' = Append(stderr, LinderaErrorLine(Analysis(arg_i).e))
    /\ pc' = "exit"
    /\ UNCHANGED <<args, lindera, arg_i, stdout, moraVars, analyzeVars>>

(* Err(UnknownPronounciationError {text}): a line on standard error, *)
(* then return.                                                      *)
MainUnknownPronounciation ==
    /\ pc = "main"
    /\ arg_i <= Len(args)
    /\ ~Analysis(arg_i).ok
    /\ Analysis(arg_i).e.kind = "UnknownPronounciationError"
    /\ stderr' = Append(stderr, UnknownPronounciationLine(Analysis(arg_i).e.text))
    /\ pc' = "exit"
    /\ UNCHANGED <<args, lindera, arg_i, stdout, moraVars, analyzeVars>>

(* Err(e), any other error: a line on standard error, then return. *)
MainOtherError ==
    /\ pc = "main"
    /\ arg_i <= Len(args)
    /\ ~Analysis(arg_i).ok
    /\ Analysis(arg_i).e.kind \notin {"LinderaError", "UnknownPronounciationError"}
    /\ stderr' = Append(stderr, OtherErrorLine(Analysis(arg_i).e))
    /\ pc' = "exit"
    /\ UNCHANGED <<args, lindera, arg_i, stdout, moraVars, analyzeVars>>

(* The arguments are used up: main returns. *)
MainEnd ==
    /\ pc = "main"
    /\ arg_i > Len(args)
    /\ pc' = "exit"
    /\ UNCHANGED <<args, lindera, arg_i, stdout, stderr, moraVars, analyzeVars>>

NextMain ==
    \/ MainPrint
    \/ MainLinderaError
    \/ MainUnknownPronounciation
    \/ MainOtherError
    \/ MainEnd

SpecMain == InitMain /\ [][NextMain]_vars

(* What the claims expect of each argument. *)
Failing == {i \in 1..Len(args) : ~Analysis(i).ok}
Succeeding == {i \in 1..Len(args) : Analysis(i).ok}

ExpectedLine(i) ==
    IF Analysis(i).v.kind.some
    THEN GomamayoLine(Trim(args[i]), Analysis(i).v.kind.v)
    ELSE NotGomamayoLine(Trim(args[i]))

ExpectedDiagnostic(i) ==
    LET e == Analysis(i).e
    IN  IF e.kind = "LinderaError" THEN LinderaErrorLine(e)
        ELSE IF e.kind = "UnknownPronounciationError"
        THEN UnknownPronounciationLine(e.text)
        ELSE OtherErrorLine(e)

(* The members of a set of argument numbers, in argument order. *)
RECURSIVE InOrder(_)
InOrder(S) ==
    IF S = {} THEN <<>>
    ELSE LET m == CHOOSE k \in S : \A j \in S : k <= j
         IN  <<m>> \o InOrder(S \ {m})

(* C8: when the analysis of a phrase fails, a diagnostic is written to   *)
(* the error stream, no result line is printed for that phrase, and the  *)
(* phrases after it are still analysed and reported: when the program    *)
(* ends, every failing phrase has its diagnostic and every other phrase  *)
(* its line.                                                             *)
C8_FailureStopsOnlyThatPhrase ==
    pc = "exit" =>
        /\ Len(stderr) = Cardinality(Failing)
        /\ \A k \in 1..Len(stderr) :
               stderr[k] = ExpectedDiagnostic(InOrder(Failing)[k])
        /\ Len(stdout) = Cardinality(Succeeding)

(* C9: when the program ends, standard output holds exactly one line for *)
(* each phrase whose analysis succeeds, in argument order: the gomamayo  *)
(* line with ary and degree when kind is present, the other line when it *)
(* is absent.                                                            *)
C9_OneLinePerSuccess ==
    pc = "exit" =>
        /\ Len(stdout) = Cardinality(Succeeding)
        /\ \A k \in 1..Len(stdout) :
               stdout[k] = ExpectedLine(InOrder(Succeeding)[k])

(* What main does: the arguments before the first failing one each have  *)
(* their line, the first failing one has its diagnostic, and nothing is  *)
(* written for the arguments after it.                                   *)
MainStopsAtFirstFailure ==
    pc = "exit" =>
        LET n == IF Failing = {} THEN Len(args) ELSE InOrder(Failing)[1] - 1
        IN  /\ Len(stdout) = n
            /\ \A k \in 1..n : stdout[k] = ExpectedLine(k)
            /\ IF Failing = {} THEN stderr = <<>>
               ELSE stderr = <<ExpectedDiagnostic(n + 1)>>
====
